---- MODULE Spec2Model ----
(***************************************************************************)
(* Model of the segmentation-and-comparison engine of audio-ai             *)
(* (src/src/comparison.rs).                                                *)
(*                                                                         *)
(* Number representation.  The program computes in f32.  The model keeps   *)
(*   - times as whole ticks, TicksPerMs ticks to the millisecond, so that  *)
(*     sub-millisecond differences exist and the truncation to whole       *)
(*     milliseconds in the matching key is visible;                        *)
(*   - frequencies by their position on the logarithmic MIDI scale, in     *)
(*     cents: the value c stands for 440 * 2^((c - 6900) / 1200) Hz, so    *)
(*     that 6900 is A4 = 440 Hz and 1200 * log2(hz2 / hz1) is c2 - c1;     *)
(*     a frequency <= 0 Hz is the value Silence;                           *)
(*   - scores as fixed-point numbers with ScoreScale units to 1.0, every   *)
(*     quotient rounded down.                                              *)
(***************************************************************************)
EXTENDS Integers, Sequences, FiniteSets, TLC

\* ------------------------------------------------------------------ bounds
TicksPerMs == 4
ScoreScale == 10000
MaxSamples == 2
MaxOnsets == 3

\* ------------------------------------------------------ program constants
\* Times are written in milliseconds and used as Ms(..) ticks, pitch distances
\* in cents, weights in hundredths (in tenths for the two rhythm weights).
midi_threshold == 1
time_threshold == 100
fallback_hop == 10
max_time_diff == 500
cent_tolerance == 50
timing_tolerance == 50
cent_full_scale == 100
min_avg_interval == 100
w_note == 30
w_pitch == 25
w_timing == 25
w_rhythm == 20
w_tempo == 6
w_stability == 4

Ms(x) == x * TicksPerMs

Abs(x) == IF x < 0 THEN -x ELSE x

Max(a, b) == IF a >= b THEN a ELSE b

Min(a, b) == IF a <= b THEN a ELSE b

RECURSIVE SumSeq(_)
SumSeq(s) == IF s = <<>> THEN 0 ELSE Head(s) + SumSeq(Tail(s))

\* f32::sqrt on a non-negative value, rounded down to a whole number:
\* the largest k with lo <= k <= hi and k * k <= n.
RECURSIVE SqrtBetween(_, _, _)
SqrtBetween(n, lo, hi) ==
    IF lo >= hi THEN lo
    ELSE LET mid == (lo + hi + 1) \div 2
         IN  IF mid * mid <= n THEN SqrtBetween(n, mid, hi)
                               ELSE SqrtBetween(n, lo, mid - 1)

Sqrt(n) == SqrtBetween(n, 0, Min(n, 46340))

\* ------------------------------------------------- Pitch/MIDI conversion
Silence == -1000000

None == -1

\* f32::round: to the nearest whole number, halves away from zero.
Round100(c) == IF c >= 0 THEN (c + 50) \div 100 ELSE -((50 - c) \div 100)

hz_to_midi(hz) ==
    IF hz = Silence THEN None
    ELSE LET midi == Round100(hz)
         IN  IF 0 <= midi /\ midi <= 127 THEN midi ELSE None

note_names == <<"C", "C#", "D", "D#", "E", "F", "F#", "G", "G#", "A", "A#", "B">>

\* Mutant of midi_to_note_name: the octave is counted from 0, not from -1.
midi_to_note_name_OctaveFromZero(midi) ==
    LET octave == midi \div 12
        note_index == midi % 12
    IN  note_names[note_index + 1] \o ToString(octave)

midi_to_note_name(midi) ==
    LET octave == (midi \div 12) - 1
        note_index == midi % 12
    IN  note_names[note_index + 1] \o ToString(octave)

hz_to_note_name(f) ==
    IF hz_to_midi(f) # None THEN midi_to_note_name(hz_to_midi(f)) ELSE "N/A"

\* Rust's / and % on i32: the quotient truncated towards zero, and the
\* remainder with the sign of the dividend.
TruncDiv(a, b) == IF a >= 0 THEN a \div b ELSE -((-a) \div b)

Rem(a, b) == IF a >= 0 THEN a % b ELSE -((-a) % b)

\* hz_to_note of export_for_gpt (processor.rs): the name from the number of
\* semitones above A4.
hz_to_note(f) ==
    IF f = Silence THEN "N/A"
    ELSE LET semitones  == Round100(f - 6900)
             note_index == Rem(Rem(semitones + 9, 12) + 12, 12)
             octave     == 4 + TruncDiv(semitones + 9, 12)
         IN  note_names[note_index + 1] \o ToString(octave)

pitch_difference_cents(hz1, hz2) ==
    IF hz1 = Silence \/ hz2 = Silence THEN 0 ELSE hz2 - hz1

\* -------------------------------------------------------- Note segmenter
\* The time of sample i (1-based): onsets.get(i - 1), else (i - 1) * 0.01 s.
SampleTime(analysis, i) ==
    IF i <= Len(analysis.onsets) THEN analysis.onsets[i]
                                 ELSE (i - 1) * Ms(fallback_hop)

\* Mutant of MeanPitch: the sum is divided by one more than the number of
\* samples.
MeanPitch_OneTooMany(pitches) == SumSeq(pitches) \div (Len(pitches) + 1)

\* The arithmetic mean of the buffered samples, taken on the cent scale and
\* rounded down (the samples of one note lie within a semitone of its first).
MeanPitch(pitches) == SumSeq(pitches) \div Len(pitches)

MakeNote(midi, start, end, pitches) ==
    [ note_name    |-> midi_to_note_name(midi),
      midi_note    |-> midi,
      start_time   |-> start,
      duration     |-> end - start,
      avg_pitch_hz |-> MeanPitch(pitches) ]

SegInit ==
    [ current_midi    |-> None,
      current_start   |-> 0,
      current_pitches |-> <<>>,
      sequences       |-> <<>> ]

\* Mutant of SegStep: a continuing sample moves the note's MIDI value to its
\* own, so the next sample is compared with the last one.
SegStep_FollowsLastSample(analysis, i, st) ==
    LET pitch_hz == analysis.pitch_hz[i]
        midi     == hz_to_midi(pitch_hz)
        time     == SampleTime(analysis, i)
    IN  IF midi = None THEN st
        ELSE IF st.current_midi = None
        THEN [st EXCEPT !.current_midi = midi,
                        !.current_start = time,
                        !.current_pitches = Append(@, pitch_hz)]
        ELSE IF Abs(midi - st.current_midi) <= midi_threshold
        THEN [st EXCEPT !.current_midi = midi,
                        !.current_pitches = Append(@, pitch_hz)]
        ELSE [ current_midi    |-> midi,
               current_start   |-> time,
               current_pitches |-> <<pitch_hz>>,
               sequences       |->
                   IF time - st.current_start >= Ms(time_threshold)
                   THEN Append(st.sequences,
                               MakeNote(st.current_midi, st.current_start, time,
                                        st.current_pitches))
                   ELSE st.sequences ]

\* Mutant of SegStep: a sample without a MIDI value abandons the open note.
SegStep_SilenceAbandons(analysis, i, st) ==
    LET pitch_hz == analysis.pitch_hz[i]
        midi     == hz_to_midi(pitch_hz)
        time     == SampleTime(analysis, i)
    IN  IF midi = None
        THEN [st EXCEPT !.current_midi = None, !.current_pitches = <<>>]
        ELSE IF st.current_midi = None
        THEN [st EXCEPT !.current_midi = midi,
                        !.current_start = time,
                        !.current_pitches = Append(@, pitch_hz)]
        ELSE IF Abs(midi - st.current_midi) <= midi_threshold
        THEN [st EXCEPT !.current_pitches = Append(@, pitch_hz)]
        ELSE [ current_midi    |-> midi,
               current_start   |-> time,
               current_pitches |-> <<pitch_hz>>,
               sequences       |->
                   IF time - st.current_start >= Ms(time_threshold)
                   THEN Append(st.sequences,
                               MakeNote(st.current_midi, st.current_start, time,
                                        st.current_pitches))
                   ELSE st.sequences ]

\* Mutant of SegStep: a closed note of exactly time_threshold is discarded.
SegStep_StrictThreshold(analysis, i, st) ==
    LET pitch_hz == analysis.pitch_hz[i]
        midi     == hz_to_midi(pitch_hz)
        time     == SampleTime(analysis, i)
    IN  IF midi = None THEN st
        ELSE IF st.current_midi = None
        THEN [st EXCEPT !.current_midi = midi,
                        !.current_start = time,
                        !.current_pitches = Append(@, pitch_hz)]
        ELSE IF Abs(midi - st.current_midi) <= midi_threshold
        THEN [st EXCEPT !.current_pitches = Append(@, pitch_hz)]
        ELSE [ current_midi    |-> midi,
               current_start   |-> time,
               current_pitches |-> <<pitch_hz>>,
               sequences       |->
                   IF time - st.current_start > Ms(time_threshold)
                   THEN Append(st.sequences,
                               MakeNote(st.current_midi, st.current_start, time,
                                        st.current_pitches))
                   ELSE st.sequences ]

\* One iteration of the scan, on sample i.
SegStep(analysis, i, st) ==
    LET pitch_hz == analysis.pitch_hz[i]
        midi     == hz_to_midi(pitch_hz)
        time     == SampleTime(analysis, i)
    IN  IF midi = None THEN st
        ELSE IF st.current_midi = None
        THEN [st EXCEPT !.current_midi = midi,
                        !.current_start = time,
                        !.current_pitches = Append(@, pitch_hz)]
        ELSE IF Abs(midi - st.current_midi) <= midi_threshold
        THEN [st EXCEPT !.current_pitches = Append(@, pitch_hz)]
        ELSE [ current_midi    |-> midi,
               current_start   |-> time,
               current_pitches |-> <<pitch_hz>>,
               sequences       |->
                   IF time - st.current_start >= Ms(time_threshold)
                   THEN Append(st.sequences,
                               MakeNote(st.current_midi, st.current_start, time,
                                        st.current_pitches))
                   ELSE st.sequences ]

RECURSIVE SegScan(_, _, _)
SegScan(analysis, i, st) ==
    IF i > Len(analysis.pitch_hz) THEN st
    ELSE SegScan(analysis, i + 1, SegStep(analysis, i, st))

\* Mutant of SegFlush: the final note ends at the time of the last sample,
\* not at the last onset.
SegFlush_LastSampleTime(analysis, st) ==
    IF /\ st.current_midi # None
       /\ analysis.onsets # <<>>
       /\ SampleTime(analysis, Len(analysis.pitch_hz)) - st.current_start
              >= Ms(time_threshold)
       /\ st.current_pitches # <<>>
    THEN Append(st.sequences,
                MakeNote(st.current_midi, st.current_start,
                         SampleTime(analysis, Len(analysis.pitch_hz)),
                         st.current_pitches))
    ELSE st.sequences

\* The final note, after the scan.
SegFlush(analysis, st) ==
    IF /\ st.current_midi # None
       /\ analysis.onsets # <<>>
       /\ analysis.onsets[Len(analysis.onsets)] - st.current_start
              >= Ms(time_threshold)
       /\ st.current_pitches # <<>>
    THEN Append(st.sequences,
                MakeNote(st.current_midi, st.current_start,
                         analysis.onsets[Len(analysis.onsets)],
                         st.current_pitches))
    ELSE st.sequences

\* Mutant of NothingToScan: only the pitch list is tested.
NothingToScan_PitchOnly(analysis) == analysis.pitch_hz = <<>>

\* The test of the early return, line 94.
NothingToScan(analysis) == analysis.pitch_hz = <<>> \/ analysis.onsets = <<>>

extract_note_sequence(analysis) ==
    IF NothingToScan(analysis) THEN <<>>
    ELSE SegFlush(analysis, SegScan(analysis, 1, SegInit))

\* ------------------------------------------------------- Rhythm analyzer
Intervals(onset_times) ==
    [k \in 1..(Len(onset_times) - 1) |-> onset_times[k + 1] - onset_times[k]]

SquaredDeviations(xs, avg) ==
    [k \in 1..Len(xs) |-> (xs[k] - avg) * (xs[k] - avg)]

\* Mutant of TempoStability: one interval is enough.
TempoStability_OneInterval(inter_onset_intervals, avg_interval) ==
    IF avg_interval > 0 /\ Len(inter_onset_intervals) > 0
    THEN LET variance == SumSeq(SquaredDeviations(inter_onset_intervals,
                                                  avg_interval))
                            \div Len(inter_onset_intervals)
             std_dev  == Sqrt(variance)
         IN  Min((ScoreScale * avg_interval) \div (avg_interval + std_dev),
                 ScoreScale)
    ELSE 0

TempoStability(inter_onset_intervals, avg_interval) ==
    IF avg_interval > 0 /\ Len(inter_onset_intervals) > 1
    THEN LET variance == SumSeq(SquaredDeviations(inter_onset_intervals,
                                                  avg_interval))
                            \div Len(inter_onset_intervals)
             std_dev  == Sqrt(variance)
         IN  \* 1 / (1 + std_dev / avg_interval), then .min(1.0)
             Min((ScoreScale * avg_interval) \div (avg_interval + std_dev),
                 ScoreScale)
    ELSE 0

extract_rhythm_pattern(analysis) ==
    LET onset_times == analysis.onsets
        inter_onset_intervals == Intervals(onset_times)
        avg_interval ==
            IF inter_onset_intervals # <<>>
            THEN SumSeq(inter_onset_intervals) \div Len(inter_onset_intervals)
            ELSE 0
    IN  [ onset_times           |-> onset_times,
          inter_onset_intervals |-> inter_onset_intervals,
          avg_interval          |-> avg_interval,
          tempo_stability       |->
              TempoStability(inter_onset_intervals, avg_interval) ]

\* -------------------------------------------- Alignment & scoring engine
\* The key of min_by_key: ((p.start_time - ref.start_time).abs() * 1000.0)
\* as i32, the distance in whole milliseconds, the fraction dropped.
MatchKey(p, ref_note) ==
    Abs(p.start_time - ref_note.start_time) \div TicksPerMs

\* Iterator::min_by_key as a left-to-right fold: a later element replaces the
\* best one only when its key is strictly smaller.  best = 0 is None.
RECURSIVE MinByKeyFrom(_, _, _, _)
MinByKeyFrom(notes, ref_note, k, best) ==
    IF k > Len(notes) THEN best
    ELSE IF best = 0 \/ MatchKey(notes[k], ref_note) < MatchKey(notes[best], ref_note)
         THEN MinByKeyFrom(notes, ref_note, k + 1, k)
         ELSE MinByKeyFrom(notes, ref_note, k + 1, best)

MinByKey(notes, ref_note) == MinByKeyFrom(notes, ref_note, 1, 0)

TimeGap(p, ref_note) == Abs(p.start_time - ref_note.start_time)

\* Mutant of Accepted: the 500 ms window is not tested.
Accepted_NoWindow(notes, closest, ref_note) == closest # 0

\* The test of the match: the candidate exists and lies within max_time_diff.
Accepted(notes, closest, ref_note) ==
    /\ closest # 0
    /\ TimeGap(notes[closest], ref_note) <= Ms(max_time_diff)

\* Mutant of NoteLoopBody: a note exactly 50 cents off is not correct.
NoteLoopBody_StrictTolerance(ref_note, notes, closest, acc) ==
    IF Accepted(notes, closest, ref_note)
    THEN LET player_note == notes[closest]
             cent_diff == pitch_difference_cents(ref_note.avg_pitch_hz,
                                                 player_note.avg_pitch_hz)
         IN  IF Abs(cent_diff) < cent_tolerance
             THEN [acc EXCEPT !.correct_count = @ + 1]
             ELSE [acc EXCEPT !.pitch_errors =
                      Append(@, [ time            |-> ref_note.start_time,
                                  expected_note   |-> ref_note.note_name,
                                  played_note     |-> player_note.note_name,
                                  cent_difference |-> cent_diff ])]
    ELSE acc

\* Body of the loop of compare_note_sequences for one reference note.
NoteLoopBody(ref_note, notes, closest, acc) ==
    IF Accepted(notes, closest, ref_note)
    THEN LET player_note == notes[closest]
             cent_diff == pitch_difference_cents(ref_note.avg_pitch_hz,
                                                 player_note.avg_pitch_hz)
         IN  IF Abs(cent_diff) <= cent_tolerance
             THEN [acc EXCEPT !.correct_count = @ + 1]
             ELSE [acc EXCEPT !.pitch_errors =
                      Append(@, [ time            |-> ref_note.start_time,
                                  expected_note   |-> ref_note.note_name,
                                  played_note     |-> player_note.note_name,
                                  cent_difference |-> cent_diff ])]
    ELSE acc

NoteAccuracy(correct, reference_len) == (ScoreScale * correct) \div reference_len

\* Mutant of TimingLoopBody: a distance of exactly 50 ms is reported too.
TimingLoopBody_AtTolerance(ref_note, notes, closest, acc) ==
    IF closest # 0
    THEN LET player_note == notes[closest]
             time_diff == TimeGap(player_note, ref_note)
         IN  IF time_diff <= Ms(max_time_diff)
             THEN [ total_timing_error |-> acc.total_timing_error + time_diff,
                    timing_errors |->
                        IF time_diff >= Ms(timing_tolerance)
                        THEN Append(acc.timing_errors,
                                    [ note          |-> ref_note.note_name,
                                      expected_time |-> ref_note.start_time,
                                      played_time   |-> player_note.start_time,
                                      ms_difference |-> time_diff ])
                        ELSE acc.timing_errors ]
             ELSE acc
    ELSE acc

\* Body of the loop of compare_timing for one reference note.
TimingLoopBody(ref_note, notes, closest, acc) ==
    IF closest # 0
    THEN LET player_note == notes[closest]
             time_diff == TimeGap(player_note, ref_note)
         IN  IF time_diff <= Ms(max_time_diff)
             THEN [ total_timing_error |-> acc.total_timing_error + time_diff,
                    timing_errors |->
                        IF time_diff > Ms(timing_tolerance)
                        THEN Append(acc.timing_errors,
                                    [ note          |-> ref_note.note_name,
                                      expected_time |-> ref_note.start_time,
                                      played_time   |-> player_note.start_time,
                                      ms_difference |-> time_diff ])
                        ELSE acc.timing_errors ]
             ELSE acc
    ELSE acc

\* Mutant of TimingAccuracy: the mean error as a fraction of max_time_diff,
\* not its complement.
TimingAccuracy_ErrorFraction(total, reference_len) ==
    Max((ScoreScale * total) \div (reference_len * Ms(max_time_diff)), 0)

\* (1.0 - (total / reference.len()) / max_time_diff).max(0.0)
TimingAccuracy(total, reference_len) ==
    Max(ScoreScale - (ScoreScale * total) \div (reference_len * Ms(max_time_diff)), 0)

\* Mutant of compare_rhythm: the tempo difference is taken relative to the
\* played average.
compare_rhythm_PlayerDivisor(ref_r, player_r) ==
    IF ref_r.inter_onset_intervals = <<>> \/ player_r.inter_onset_intervals = <<>>
    THEN 0
    ELSE LET tempo_diff == Abs(ref_r.avg_interval - player_r.avg_interval)
             tempo_similarity ==
                 Max(ScoreScale - (ScoreScale * tempo_diff)
                         \div Max(player_r.avg_interval, Ms(min_avg_interval)), 0)
             stability_similarity ==
                 ScoreScale - Abs(ref_r.tempo_stability - player_r.tempo_stability)
         IN  (w_tempo * tempo_similarity + w_stability * stability_similarity)
                 \div (w_tempo + w_stability)

compare_rhythm(ref_r, player_r) ==
    IF ref_r.inter_onset_intervals = <<>> \/ player_r.inter_onset_intervals = <<>>
    THEN 0
    ELSE LET tempo_diff == Abs(ref_r.avg_interval - player_r.avg_interval)
             tempo_similarity ==
                 Max(ScoreScale - (ScoreScale * tempo_diff)
                         \div Max(ref_r.avg_interval, Ms(min_avg_interval)), 0)
             stability_similarity ==
                 ScoreScale - Abs(ref_r.tempo_stability - player_r.tempo_stability)
         IN  (w_tempo * tempo_similarity + w_stability * stability_similarity)
                 \div (w_tempo + w_stability)

AbsCents(errors) == [k \in 1..Len(errors) |-> Abs(errors[k].cent_difference)]

\* Mutant of calculate_pitch_accuracy: the score is not floored at 0.0.
calculate_pitch_accuracy_NoFloor(errors) ==
    IF errors = <<>> THEN ScoreScale
    ELSE ScoreScale - (ScoreScale * SumSeq(AbsCents(errors)))
             \div (cent_full_scale * Len(errors))

calculate_pitch_accuracy(errors) ==
    IF errors = <<>> THEN ScoreScale
    ELSE Max(ScoreScale - (ScoreScale * SumSeq(AbsCents(errors)))
                 \div (cent_full_scale * Len(errors)), 0)

\* "{:.2}" of a time in seconds: hundredths of a second, to the nearest,
\* a value exactly half way to the even one.
Hundredths(t) ==
    LET q == t \div Ms(10)
        r == t % Ms(10)
    IN  IF 2 * r > Ms(10) \/ (2 * r = Ms(10) /\ q % 2 = 1) THEN q + 1 ELSE q

TwoDigits(d) == IF d < 10 THEN "0" \o ToString(d) ELSE ToString(d)

\* format!("{} at {:.2}s", note_name, start_time)
NoteLabel(note) ==
    LET h == Hundredths(note.start_time)
    IN  note.note_name \o " at " \o ToString(h \div 100) \o "."
            \o TwoDigits(h % 100) \o "s"

\* Mutant of Found: the note names are not compared.
Found_IgnoreName(note, others) ==
    \E k \in 1..Len(others) : TimeGap(others[k], note) <= Ms(max_time_diff)

\* Mutant of Found: the window test is reversed.
Found_OutsideWindow(note, others) ==
    \E k \in 1..Len(others) :
        /\ TimeGap(others[k], note) > Ms(max_time_diff)
        /\ others[k].note_name = note.note_name

\* any(): some note of `others` has the name of `note` and starts within
\* max_time_diff of it.
Found(note, others) ==
    \E k \in 1..Len(others) :
        /\ TimeGap(others[k], note) <= Ms(max_time_diff)
        /\ others[k].note_name = note.note_name

RECURSIVE Unfound(_, _, _)
Unfound(notes, others, k) ==
    IF k > Len(notes) THEN <<>>
    ELSE IF Found(notes[k], others)
         THEN Unfound(notes, others, k + 1)
         ELSE <<NoteLabel(notes[k])>> \o Unfound(notes, others, k + 1)

\* Mutant of find_note_differences: the two lists are exchanged.
find_note_differences_Swapped(ref_seq, player_seq) ==
    [ missed_notes |-> Unfound(player_seq, ref_seq, 1),
      extra_notes  |-> Unfound(ref_seq, player_seq, 1) ]

find_note_differences(ref_seq, player_seq) ==
    [ missed_notes |-> Unfound(ref_seq, player_seq, 1),
      extra_notes  |-> Unfound(player_seq, ref_seq, 1) ]

\* Mutant of OverallSimilarity: the note accuracy term is left out.
OverallSimilarity_WithoutNotes(note_acc, pitch_acc, timing_acc, rhythm_acc) ==
    (w_pitch * pitch_acc + w_timing * timing_acc + w_rhythm * rhythm_acc)
        \div 100

\* Mutant of OverallSimilarity: rhythm weighs a quarter, like pitch and timing.
OverallSimilarity_RhythmQuarter(note_acc, pitch_acc, timing_acc, rhythm_acc) ==
    (w_note * note_acc + w_pitch * pitch_acc + w_timing * timing_acc
        + w_pitch * rhythm_acc) \div 100

OverallSimilarity(note_acc, pitch_acc, timing_acc, rhythm_acc) ==
    (w_note * note_acc + w_pitch * pitch_acc + w_timing * timing_acc
        + w_rhythm * rhythm_acc) \div 100

\* ------------------------------------------------------------------ inputs
\* Reference samples: A4 50 cents flat, B4.  Player samples: A4, A4 30 cents
\* sharp, C5 20 cents flat.
RefPitchValues == {6850, 7100}

PlayerPitchValues == {6900, 6930, 7180}

RefOnsetValues == {Ms(50), Ms(100) + 1, Ms(100) + 2, Ms(700) + 2, Ms(1000)}

PlayerOnsetValues == {0, Ms(200) + 2, Ms(1000)}

\* Recordings: every pitch sequence of up to MaxSamples samples with every
\* strictly ascending onset list of up to MaxOnsets timestamps.
SeqsUpTo(S, n) == UNION {[1..k -> S] : k \in 0..n}

Ascending(s) == \A a \in 1..Len(s), b \in 1..Len(s) : a < b => s[a] < s[b]

Recordings(pitch_values, onset_values) ==
    { [pitch_hz |-> p, onsets |-> o] :
        p \in SeqsUpTo(pitch_values, MaxSamples),
        o \in {s \in SeqsUpTo(onset_values, MaxOnsets) : Ascending(s)} }

\* ------------------------------------------------------------------- state
VARIABLES
    reference, player,            \* the two AnalysisResult arguments
    pc,                           \* position in compare_recordings
    ref_notes, player_notes, ref_rhythm, player_rhythm,
    i,                            \* index of the next reference note of a loop
    closest_player,               \* candidate of the last iteration, 0 = None
    correct_count, pitch_errors, note_accuracy,
    total_timing_error, timing_errors, timing_accuracy,
    rhythm_accuracy, pitch_accuracy, missed_notes, extra_notes,
    overall_similarity,
    seg,                          \* extract_note_sequence: the open note and
                                  \* the notes emitted so far
    seg_i,                        \* extract_note_sequence: the next sample
    prev_closed,                  \* growing buffer: the notes the invocation
                                  \* before this one emitted by closing
    grown,                        \* growing buffer: times the buffer has grown
    hz,                           \* note naming: the frequency to be named
    shared_note,                  \* note naming: result of hz_to_note_name
    legacy_note,                  \* note naming: result of hz_to_note
    mock,                         \* the MockAIClient shared by the tasks
    tasks,                        \* each task's position in its call
    stream,                       \* the StreamingState of the live analysis
    call,                         \* the last call of analyze_stream_chunk
    start,                        \* export_for_gpt: start of the next chunk
    chunks                        \* export_for_gpt: the chunks so far

inputs == <<reference, player>>

extracted == <<ref_notes, player_notes, ref_rhythm, player_rhythm>>

note_vars == <<correct_count, pitch_errors, note_accuracy>>

timing_vars == <<total_timing_error, timing_errors, timing_accuracy>>

final_vars == <<rhythm_accuracy, pitch_accuracy, missed_notes, extra_notes,
                overall_similarity>>

seg_vars == <<seg, seg_i>>

grow_vars == <<prev_closed, grown>>

\* The variables of the operations other than compare_recordings and
\* extract_note_sequence.
name_vars == <<hz, shared_note, legacy_note>>

mock_vars == <<mock, tasks>>

stream_vars == <<stream, call>>

export_vars == <<start, chunks>>

other_vars == <<grow_vars, name_vars, mock_vars, stream_vars, export_vars>>

\* Their values while those operations have not been used.
GrowIdle == prev_closed = <<>> /\ grown = 0

NameIdle == hz = Silence /\ shared_note = "" /\ legacy_note = ""

MockTasks == 2

MockCalls == 2

TaskIds == 1..MockTasks

NoTask == 0

\* MockAIClient::new(), with the one comparison response it is built with.
NewMock(response) ==
    [ comparison_responses  |-> <<response>>,
      comparison_call_count |-> 0,
      single_call_count     |-> 0,
      comparison_lock       |-> NoTask ]

NoCalls ==
    [t \in TaskIds |-> [pc |-> "idle", index |-> 0, count |-> 0,
                        feedback |-> <<>>]]

MockIdle == mock = NewMock("Great job!") /\ tasks = NoCalls

DetectorError == -2

\* StreamingState { current_time: 0.0, detected_notes: Vec::new() }
NewStream == [ current_time |-> 0, detected_notes |-> <<>> ]

\* Option<NoteEvent>::None, the value of a call that returns no note.
NoNote == [ time |-> -1, pitch_hz |-> Silence, confidence |-> 0 ]

\* No call yet, in a session at the given sample rate.
NoCall(sample_rate) ==
    [ n |-> 0, sample_rate |-> sample_rate, chunk_len |-> 0,
      pitch |-> DetectorError, onset |-> DetectorError, returned |-> NoNote ]

StreamIdle == stream = NewStream /\ call = NoCall(8000)

ExportIdle == start = 0 /\ chunks = <<>>

Idle ==
    /\ GrowIdle
    /\ NameIdle
    /\ MockIdle
    /\ StreamIdle
    /\ ExportIdle

vars == <<inputs, pc, extracted, i, closest_player, note_vars, timing_vars,
          final_vars, seg_vars, other_vars>>

EmptyRhythm ==
    [ onset_times |-> <<>>, inter_onset_intervals |-> <<>>,
      avg_interval |-> 0, tempo_stability |-> 0 ]

Init ==
    /\ reference \in Recordings(RefPitchValues, RefOnsetValues)
    /\ player \in Recordings(PlayerPitchValues, PlayerOnsetValues)
    /\ pc = "extract"
    /\ ref_notes = <<>> /\ player_notes = <<>>
    /\ ref_rhythm = EmptyRhythm /\ player_rhythm = EmptyRhythm
    /\ i = 1 /\ closest_player = 0
    /\ correct_count = 0 /\ pitch_errors = <<>> /\ note_accuracy = 0
    /\ total_timing_error = 0 /\ timing_errors = <<>> /\ timing_accuracy = 0
    /\ rhythm_accuracy = 0 /\ pitch_accuracy = 0
    /\ missed_notes = <<>> /\ extra_notes = <<>>
    /\ overall_similarity = 0
    /\ seg = SegInit /\ seg_i = 1
    /\ Idle

\* compare_recordings, lines 203-207: segment both recordings, analyse both
\* rhythms.
Extract ==
    /\ pc = "extract"
    /\ ref_notes' = extract_note_sequence(reference)
    /\ player_notes' = extract_note_sequence(player)
    /\ ref_rhythm' = extract_rhythm_pattern(reference)
    /\ player_rhythm' = extract_rhythm_pattern(player)
    /\ pc' = "notes"
    /\ UNCHANGED <<other_vars, seg_vars, inputs, i, closest_player, note_vars, timing_vars, final_vars>>

\* compare_note_sequences: the early return on an empty sequence.
NotesEmpty ==
    /\ pc = "notes"
    /\ ref_notes = <<>> \/ player_notes = <<>>
    /\ note_accuracy' = 0
    /\ pitch_errors' = <<>>
    /\ pc' = "timing"
    /\ UNCHANGED <<other_vars, seg_vars, inputs, extracted, i, closest_player, correct_count,
                   timing_vars, final_vars>>

\* compare_note_sequences: one iteration of the loop over the reference.
NotesStep ==
    /\ pc = "notes"
    /\ ref_notes # <<>> /\ player_notes # <<>>
    /\ i <= Len(ref_notes)
    /\ LET closest == MinByKey(player_notes, ref_notes[i])
           acc == NoteLoopBody(ref_notes[i], player_notes, closest,
                               [ correct_count |-> correct_count,
                                 pitch_errors  |-> pitch_errors ])
       IN  /\ closest_player' = closest
           /\ correct_count' = acc.correct_count
           /\ pitch_errors' = acc.pitch_errors
    /\ i' = i + 1
    /\ UNCHANGED <<other_vars, seg_vars, inputs, pc, extracted, note_accuracy, timing_vars, final_vars>>

\* compare_note_sequences: the result after the loop.
NotesReturn ==
    /\ pc = "notes"
    /\ ref_notes # <<>> /\ player_notes # <<>>
    /\ i > Len(ref_notes)
    /\ note_accuracy' = NoteAccuracy(correct_count, Len(ref_notes))
    /\ pc' = "timing"
    /\ i' = 1
    /\ closest_player' = 0
    /\ UNCHANGED <<other_vars, seg_vars, inputs, extracted, correct_count, pitch_errors, timing_vars,
                   final_vars>>

\* compare_timing: the early return on an empty sequence.
TimingEmpty ==
    /\ pc = "timing"
    /\ ref_notes = <<>> \/ player_notes = <<>>
    /\ timing_accuracy' = 0
    /\ timing_errors' = <<>>
    /\ pc' = "finish"
    /\ UNCHANGED <<other_vars, seg_vars, inputs, extracted, i, closest_player, note_vars,
                   total_timing_error, final_vars>>

\* compare_timing: one iteration of the loop over the reference.
TimingStep ==
    /\ pc = "timing"
    /\ ref_notes # <<>> /\ player_notes # <<>>
    /\ i <= Len(ref_notes)
    /\ LET closest == MinByKey(player_notes, ref_notes[i])
           acc == TimingLoopBody(ref_notes[i], player_notes, closest,
                                 [ total_timing_error |-> total_timing_error,
                                   timing_errors      |-> timing_errors ])
       IN  /\ closest_player' = closest
           /\ total_timing_error' = acc.total_timing_error
           /\ timing_errors' = acc.timing_errors
    /\ i' = i + 1
    /\ UNCHANGED <<other_vars, seg_vars, inputs, pc, extracted, note_vars, timing_accuracy, final_vars>>

\* compare_timing: the result after the loop.
TimingReturn ==
    /\ pc = "timing"
    /\ ref_notes # <<>> /\ player_notes # <<>>
    /\ i > Len(ref_notes)
    /\ timing_accuracy' = TimingAccuracy(total_timing_error, Len(ref_notes))
    /\ pc' = "finish"
    /\ i' = 1
    /\ closest_player' = 0
    /\ UNCHANGED <<other_vars, seg_vars, inputs, extracted, note_vars, total_timing_error,
                   timing_errors, final_vars>>

\* compare_recordings, lines 216-240: rhythm and pitch accuracy, missed and
\* extra notes, the weighted sum.
Finish ==
    /\ pc = "finish"
    /\ LET rhythm == compare_rhythm(ref_rhythm, player_rhythm)
           pitch == calculate_pitch_accuracy(pitch_errors)
           diffs == find_note_differences(ref_notes, player_notes)
       IN  /\ rhythm_accuracy' = rhythm
           /\ pitch_accuracy' = pitch
           /\ missed_notes' = diffs.missed_notes
           /\ extra_notes' = diffs.extra_notes
           /\ overall_similarity' =
                  OverallSimilarity(note_accuracy, pitch, timing_accuracy, rhythm)
    /\ pc' = "done"
    /\ UNCHANGED <<other_vars, seg_vars, inputs, extracted, i, closest_player, note_vars, timing_vars>>

Next ==
    \/ Extract
    \/ NotesEmpty
    \/ NotesStep
    \/ NotesReturn
    \/ TimingEmpty
    \/ TimingStep
    \/ TimingReturn
    \/ Finish

Spec == Init /\ [][Next]_vars

\* ------------------------------------------- the segmenter, step by step
\* extract_note_sequence(reference) on its own, one sample to the step.
SegPitchValues == {Silence, 12800, 6900, 7040, 7110}

SegOnsetValues == {0, Ms(50), Ms(100), Ms(200), Ms(1000)}

SegSamples == 3

SegOnsets == 3

LongRun == 10

\* n samples of A4 and then a B4.
Run(n) == [j \in 1..(n + 1) |-> IF j <= n THEN 6900 ELSE 7110]

\* Short recordings of every kind, and long held notes with at most one
\* onset, whose samples take the fallback times.
SegRecordings ==
    { [pitch_hz |-> p, onsets |-> o] :
        p \in SeqsUpTo(SegPitchValues, SegSamples),
        o \in {s \in SeqsUpTo(SegOnsetValues, SegOnsets) : Ascending(s)} }
    \cup
    { [pitch_hz |-> Run(n), onsets |-> o] :
        n \in 1..LongRun, o \in SeqsUpTo({0}, 1) }

NoRecording == [pitch_hz |-> <<>>, onsets |-> <<>>]

\* The variables of compare_recordings before it has done anything.
Untouched ==
    /\ ref_notes = <<>> /\ player_notes = <<>>
    /\ ref_rhythm = EmptyRhythm /\ player_rhythm = EmptyRhythm
    /\ i = 1 /\ closest_player = 0
    /\ correct_count = 0 /\ pitch_errors = <<>> /\ note_accuracy = 0
    /\ total_timing_error = 0 /\ timing_errors = <<>> /\ timing_accuracy = 0
    /\ rhythm_accuracy = 0 /\ pitch_accuracy = 0
    /\ missed_notes = <<>> /\ extra_notes = <<>>
    /\ overall_similarity = 0

compare_vars == <<player, extracted, i, closest_player, note_vars, timing_vars,
                  final_vars>>

InitSeg ==
    /\ reference \in SegRecordings
    /\ player = NoRecording
    /\ pc = "segment"
    /\ Untouched
    /\ seg = SegInit /\ seg_i = 1
    /\ Idle

\* Lines 94-96: the early return on an empty pitch or onset list.
SegEmpty ==
    /\ pc = "segment"
    /\ NothingToScan(reference)
    /\ pc' = "segmented"
    /\ UNCHANGED <<other_vars, reference, seg_vars, compare_vars>>

\* Lines 106-143: one iteration of the scan.
SegSample ==
    /\ pc = "segment"
    /\ ~NothingToScan(reference)
    /\ seg_i <= Len(reference.pitch_hz)
    /\ seg' = SegStep(reference, seg_i, seg)
    /\ seg_i' = seg_i + 1
    /\ UNCHANGED <<other_vars, reference, pc, compare_vars>>

\* Lines 145-161: the final note and the return.
SegFinal ==
    /\ pc = "segment"
    /\ ~NothingToScan(reference)
    /\ seg_i > Len(reference.pitch_hz)
    /\ seg' = [seg EXCEPT !.sequences = SegFlush(reference, seg)]
    /\ pc' = "segmented"
    /\ UNCHANGED <<other_vars, reference, seg_i, compare_vars>>

NextSeg ==
    \/ SegEmpty
    \/ SegSample
    \/ SegFinal

SpecSeg == InitSeg /\ [][NextSeg]_vars

\* The scan taken step by step returns what extract_note_sequence returns.
SegAgrees ==
    pc = "segmented" => seg.sequences = extract_note_sequence(reference)

\* ---------------------------------------- compare_recordings as a function
\* The loops of compare_note_sequences and compare_timing as folds over the
\* reference, and the whole of compare_recordings as one operator.
RECURSIVE NotesLoop(_, _, _, _)
NotesLoop(ref_seq, player_seq, k, acc) ==
    IF k > Len(ref_seq) THEN acc
    ELSE NotesLoop(ref_seq, player_seq, k + 1,
                   NoteLoopBody(ref_seq[k], player_seq,
                                MinByKey(player_seq, ref_seq[k]), acc))

compare_note_sequences(ref_seq, player_seq) ==
    IF ref_seq = <<>> \/ player_seq = <<>>
    THEN [ note_accuracy |-> 0, pitch_errors |-> <<>> ]
    ELSE LET acc == NotesLoop(ref_seq, player_seq, 1,
                              [ correct_count |-> 0, pitch_errors |-> <<>> ])
         IN  [ note_accuracy |-> NoteAccuracy(acc.correct_count, Len(ref_seq)),
               pitch_errors  |-> acc.pitch_errors ]

RECURSIVE TimingLoop(_, _, _, _)
TimingLoop(ref_seq, player_seq, k, acc) ==
    IF k > Len(ref_seq) THEN acc
    ELSE TimingLoop(ref_seq, player_seq, k + 1,
                    TimingLoopBody(ref_seq[k], player_seq,
                                   MinByKey(player_seq, ref_seq[k]), acc))

compare_timing(ref_seq, player_seq) ==
    IF ref_seq = <<>> \/ player_seq = <<>>
    THEN [ timing_accuracy |-> 0, timing_errors |-> <<>> ]
    ELSE LET acc == TimingLoop(ref_seq, player_seq, 1,
                               [ total_timing_error |-> 0,
                                 timing_errors      |-> <<>> ])
         IN  [ timing_accuracy |->
                   TimingAccuracy(acc.total_timing_error, Len(ref_seq)),
               timing_errors   |-> acc.timing_errors ]

\* The metrics of two note sequences and two rhythm patterns, lines 209-240.
Metrics(ref_seq, player_seq, ref_r, player_r) ==
    LET notes  == compare_note_sequences(ref_seq, player_seq)
        timing == compare_timing(ref_seq, player_seq)
        rhythm == compare_rhythm(ref_r, player_r)
        pitch  == calculate_pitch_accuracy(notes.pitch_errors)
        diffs  == find_note_differences(ref_seq, player_seq)
    IN  [ overall_similarity |->
              OverallSimilarity(notes.note_accuracy, pitch,
                                timing.timing_accuracy, rhythm),
          note_accuracy   |-> notes.note_accuracy,
          pitch_accuracy  |-> pitch,
          timing_accuracy |-> timing.timing_accuracy,
          rhythm_accuracy |-> rhythm,
          pitch_errors    |-> notes.pitch_errors,
          timing_errors   |-> timing.timing_errors,
          missed_notes    |-> diffs.missed_notes,
          extra_notes     |-> diffs.extra_notes ]

compare_recordings(ref_analysis, player_analysis) ==
    Metrics(extract_note_sequence(ref_analysis),
            extract_note_sequence(player_analysis),
            extract_rhythm_pattern(ref_analysis),
            extract_rhythm_pattern(player_analysis))

\* The metrics held in the variables once compare_recordings has returned.
Returned ==
    [ overall_similarity |-> overall_similarity,
      note_accuracy   |-> note_accuracy,
      pitch_accuracy  |-> pitch_accuracy,
      timing_accuracy |-> timing_accuracy,
      rhythm_accuracy |-> rhythm_accuracy,
      pitch_errors    |-> pitch_errors,
      timing_errors   |-> timing_errors,
      missed_notes    |-> missed_notes,
      extra_notes     |-> extra_notes ]

\* The comparison taken step by step returns what the operator returns.
CompareAgrees ==
    pc = "done" => Returned = compare_recordings(reference, player)

\* ------------------------------------------------- two takes of one piece
\* A recording compared with a second take over the same onsets: the same
\* take again, or one in which some of its samples came out as silence.
\* Samples: silence, A4, B4 10 cents sharp, C#5 20 cents sharp.
PairPitchValues == {Silence, 6900, 7110, 7320}

PairOnsetValues == {Ms(20), Ms(200), Ms(400), Ms(1000), Ms(1200)}

PairSamples == 3

PairOnsets == 4

PairRecordings ==
    { [pitch_hz |-> p, onsets |-> o] :
        p \in SeqsUpTo(PairPitchValues, PairSamples),
        o \in {s \in SeqsUpTo(PairOnsetValues, PairOnsets) : Ascending(s)} }

Takes(analysis) ==
    { [pitch_hz |-> p, onsets |-> analysis.onsets] :
        p \in { q \in [1..Len(analysis.pitch_hz) -> PairPitchValues] :
                  \A j \in 1..Len(analysis.pitch_hz) :
                      q[j] \in {analysis.pitch_hz[j], Silence} } }

InitPair ==
    /\ reference \in PairRecordings
    /\ player \in Takes(reference)
    /\ pc = "extract"
    /\ Untouched
    /\ seg = SegInit /\ seg_i = 1
    /\ Idle

SpecPair == InitPair /\ [][Next]_vars

\* ------------------------------------------------------ a growing buffer
\* extract_note_sequence invoked on a buffer, and again after the buffer has
\* been extended by further pitch samples and onsets.
GrowPitchValues == {Silence, 6900, 7110}

GrowOnsetValues == {0, Ms(50), Ms(200)}

GrowSamples == 2

GrowOnsets == 2

MaxGrowth == 1

\* r silent samples, n samples of A4 and then a B4.
Held(r, n) == [j \in 1..r |-> Silence] \o Run(n)

GrowRecordings ==
    { [pitch_hz |-> p, onsets |-> o] :
        p \in SeqsUpTo(GrowPitchValues, GrowSamples)
                  \cup {Held(r, n) : r \in 0..1, n \in 1..LongRun},
        o \in {s \in SeqsUpTo(GrowOnsetValues, GrowOnsets) : Ascending(s)} }

\* The notes an invocation emits by closing, those of lines 124-134.
ClosedNotes(analysis) ==
    IF NothingToScan(analysis) THEN <<>>
    ELSE SegScan(analysis, 1, SegInit).sequences

InitGrow ==
    /\ reference \in GrowRecordings
    /\ player = NoRecording
    /\ pc = "segment"
    /\ Untouched
    /\ seg = SegInit /\ seg_i = 1
    /\ Idle

\* The buffer is extended and extract_note_sequence is invoked on it anew.
Grow ==
    /\ pc = "segmented"
    /\ grown < MaxGrowth
    /\ \E p \in SeqsUpTo(GrowPitchValues, 1), o \in SeqsUpTo(GrowOnsetValues, 1) :
          /\ p # <<>> \/ o # <<>>
          /\ Ascending(reference.onsets \o o)
          /\ reference' = [ pitch_hz |-> reference.pitch_hz \o p,
                            onsets   |-> reference.onsets \o o ]
    /\ prev_closed' = ClosedNotes(reference)
    /\ grown' = grown + 1
    /\ seg' = SegInit /\ seg_i' = 1
    /\ pc' = "segment"
    /\ UNCHANGED <<compare_vars, name_vars, mock_vars, stream_vars,
                   export_vars>>

NextGrow ==
    \/ SegEmpty
    \/ SegSample
    \/ SegFinal
    \/ Grow

SpecGrow == InitGrow /\ [][NextGrow]_vars

\* --------------------------------------------- the rhythm analyzer alone
\* extract_rhythm_pattern(reference) on its own.  The onsets are any list,
\* ascending or not.
RhythmOnsetValues == {0, Ms(100), Ms(200), Ms(300), Ms(450)}

RhythmOnsets == 4

RhythmRecordings ==
    { [pitch_hz |-> <<>>, onsets |-> o] :
        o \in SeqsUpTo(RhythmOnsetValues, RhythmOnsets) }

InitRhythm ==
    /\ reference \in RhythmRecordings
    /\ player = NoRecording
    /\ pc = "rhythm"
    /\ Untouched
    /\ seg = SegInit /\ seg_i = 1
    /\ Idle

ExtractRhythm ==
    /\ pc = "rhythm"
    /\ ref_rhythm' = extract_rhythm_pattern(reference)
    /\ pc' = "rhythm_done"
    /\ UNCHANGED <<other_vars, seg_vars, inputs, ref_notes, player_notes,
                   player_rhythm, i, closest_player, note_vars, timing_vars,
                   final_vars>>

NextRhythm == ExtractRhythm

SpecRhythm == InitRhythm /\ [][NextRhythm]_vars

\* ------------------------------------------------------- naming a pitch
\* A frequency named by hz_to_note_name and by hz_to_note of export_for_gpt.
\* The frequencies: every MIDI number of 0..=127 in tune, 20 cents flat,
\* 49 cents sharp and half way down to the number below; silence; and the
\* first number out of range.
NameHzValues ==
    {m * 100 + d : m \in 0..127, d \in {-50, -20, 0, 49}} \cup {Silence, 12800}

\* No recording is compared or segmented.
NoAnalysis ==
    /\ reference = NoRecording /\ player = NoRecording
    /\ Untouched
    /\ seg = SegInit /\ seg_i = 1

analysis_vars == <<inputs, pc, extracted, i, closest_player, note_vars,
                   timing_vars, final_vars, seg_vars>>

InitName ==
    /\ NoAnalysis
    /\ GrowIdle
    /\ MockIdle
    /\ StreamIdle
    /\ ExportIdle
    /\ pc = "name"
    /\ hz \in NameHzValues
    /\ shared_note = "" /\ legacy_note = ""

NameShared ==
    /\ pc = "name"
    /\ shared_note = ""
    /\ shared_note' = hz_to_note_name(hz)
    /\ UNCHANGED <<hz, legacy_note, grow_vars, mock_vars, stream_vars,
                 export_vars, analysis_vars>>

NameLegacy ==
    /\ pc = "name"
    /\ legacy_note = ""
    /\ legacy_note' = hz_to_note(hz)
    /\ UNCHANGED <<hz, shared_note, grow_vars, mock_vars, stream_vars,
                 export_vars, analysis_vars>>

NextName ==
    \/ NameShared
    \/ NameLegacy

SpecName == InitName /\ [][NextName]_vars

\* ------------------------------------------------------ the MockAIClient
\* Tasks sharing one MockAIClient, each calling send_comparison and
\* send_single_analysis a bounded number of times.
MockResponses == {"Great job!", "Test feedback for comparison"}

InitMock ==
    /\ NoAnalysis
    /\ pc = "clients"
    /\ GrowIdle
    /\ NameIdle
    /\ StreamIdle
    /\ ExportIdle
    /\ mock \in {NewMock(r) : r \in MockResponses}
    /\ tasks = NoCalls

\* Mutant of CanLock: the mutex is not respected.
CanLock_Always(holder) == TRUE

\* Mutex::lock returns when no task holds the mutex.
CanLock(holder) == holder = NoTask

\* Line 216: the lock on comparison_call_count is taken.
SendLock(t) ==
    /\ tasks[t].pc = "idle"
    /\ Len(tasks[t].feedback) < MockCalls
    /\ CanLock(mock.comparison_lock)
    /\ mock' = [mock EXCEPT !.comparison_lock = t]
    /\ tasks' = [tasks EXCEPT ![t].pc = "locked"]
    /\ UNCHANGED <<grow_vars, name_vars, stream_vars, export_vars,
                 analysis_vars>>

\* Line 217: the index of the response.
SendIndex(t) ==
    /\ tasks[t].pc = "locked"
    /\ tasks' = [tasks EXCEPT
                    ![t].index = mock.comparison_call_count
                                     % Len(mock.comparison_responses),
                    ![t].pc = "indexed"]
    /\ UNCHANGED <<mock, grow_vars, name_vars, stream_vars, export_vars,
                 analysis_vars>>

\* Line 218, *count += 1: the count is read ...
SendLoad(t) ==
    /\ tasks[t].pc = "indexed"
    /\ tasks' = [tasks EXCEPT ![t].count = mock.comparison_call_count,
                              ![t].pc = "loaded"]
    /\ UNCHANGED <<mock, grow_vars, name_vars, stream_vars, export_vars,
                 analysis_vars>>

\* ... and written back, one higher.
SendStore(t) ==
    /\ tasks[t].pc = "loaded"
    /\ mock' = [mock EXCEPT !.comparison_call_count = tasks[t].count + 1]
    /\ tasks' = [tasks EXCEPT ![t].pc = "stored"]
    /\ UNCHANGED <<grow_vars, name_vars, stream_vars, export_vars,
                 analysis_vars>>

\* Lines 220-223: the response is returned and the guard dropped.
SendReturn(t) ==
    /\ tasks[t].pc = "stored"
    /\ tasks' = [tasks EXCEPT
                    ![t].feedback =
                        Append(@, mock.comparison_responses[tasks[t].index + 1]),
                    ![t].pc = "idle"]
    /\ mock' = [mock EXCEPT !.comparison_lock =
                                IF @ = t THEN NoTask ELSE @]
    /\ UNCHANGED <<grow_vars, name_vars, stream_vars, export_vars,
                 analysis_vars>>

\* send_single_analysis, lines 225-237, under its own mutex.
SendSingle(t) ==
    /\ tasks[t].pc = "idle"
    /\ mock.single_call_count < MockCalls
    /\ mock' = [mock EXCEPT !.single_call_count = @ + 1]
    /\ UNCHANGED <<tasks, grow_vars, name_vars, stream_vars, export_vars,
                 analysis_vars>>

NextMock ==
    \/ \E t \in TaskIds : SendLock(t)
    \/ \E t \in TaskIds : SendIndex(t)
    \/ \E t \in TaskIds : SendLoad(t)
    \/ \E t \in TaskIds : SendStore(t)
    \/ \E t \in TaskIds : SendReturn(t)
    \/ \E t \in TaskIds : SendSingle(t)

SpecMock == InitMock /\ [][NextMock]_vars

\* ------------------------------------------------------- live analysis
\* analyze_stream_chunk called on one chunk after another.  The detectors
\* are aubio's: what they return for a chunk is any of their outcomes, an
\* error, no pitch (0.0) or a pitch; an error, no onset or an onset.
StreamRates == {8000, 16000}

ChunkLens == {0, 80, 800}

PitchOutcomes == {DetectorError, Silence, 6900}

OnsetOutcomes == {DetectorError, 0, 1}

StreamCalls == 3

\* chunk.len() as f32 / sample_rate as f32, in ticks.
Advance(chunk_len, sample_rate) ==
    (chunk_len * 1000 * TicksPerMs) \div sample_rate

\* Mutant of analyze_stream_chunk: the note is stamped with the time before
\* the chunk.
analyze_stream_chunk_StampsBefore(chunk_len, sample_rate, state, p, onset_val) ==
    IF p = DetectorError \/ onset_val = DetectorError
    THEN [ state |-> state, result |-> NoNote ]
    ELSE LET time == state.current_time + Advance(chunk_len, sample_rate)
         IN  IF p # Silence
             THEN LET note == [ time |-> state.current_time, pitch_hz |-> p,
                                confidence |-> ScoreScale ]
                  IN  [ state  |-> [ current_time   |-> time,
                                     detected_notes |->
                                         Append(state.detected_notes, note) ],
                        result |-> note ]
             ELSE [ state  |-> [state EXCEPT !.current_time = time],
                    result |-> NoNote ]

\* Mutant of analyze_stream_chunk: the time is advanced before the detectors
\* are run.
analyze_stream_chunk_AdvancesFirst(chunk_len, sample_rate, state, p, onset_val) ==
    LET time == state.current_time + Advance(chunk_len, sample_rate)
    IN  IF p = DetectorError \/ onset_val = DetectorError
        THEN [ state  |-> [state EXCEPT !.current_time = time],
               result |-> NoNote ]
        ELSE IF p # Silence
             THEN LET note == [ time |-> time, pitch_hz |-> p,
                                confidence |-> ScoreScale ]
                  IN  [ state  |-> [ current_time   |-> time,
                                     detected_notes |->
                                         Append(state.detected_notes, note) ],
                        result |-> note ]
             ELSE [ state  |-> [state EXCEPT !.current_time = time],
                    result |-> NoNote ]

\* analyze_stream_chunk, with the outcomes p and onset_val of the detectors:
\* the state after the call and the value returned.
analyze_stream_chunk(chunk_len, sample_rate, state, p, onset_val) ==
    IF p = DetectorError \/ onset_val = DetectorError
    THEN [ state |-> state, result |-> NoNote ]
    ELSE LET time == state.current_time + Advance(chunk_len, sample_rate)
         IN  IF p # Silence
             THEN LET note == [ time |-> time, pitch_hz |-> p,
                                confidence |-> ScoreScale ]
                  IN  [ state  |-> [ current_time   |-> time,
                                     detected_notes |->
                                         Append(state.detected_notes, note) ],
                        result |-> note ]
             ELSE [ state  |-> [state EXCEPT !.current_time = time],
                    result |-> NoNote ]

InitStream ==
    /\ NoAnalysis
    /\ pc = "streaming"
    /\ GrowIdle
    /\ NameIdle
    /\ MockIdle
    /\ ExportIdle
    /\ stream = NewStream
    /\ call \in {NoCall(r) : r \in StreamRates}

\* The callback of build_input_stream: one call on the next chunk.
AnalyzeChunk ==
    /\ pc = "streaming"
    /\ call.n < StreamCalls
    /\ \E chunk_len \in ChunkLens, p \in PitchOutcomes, onset_val \in OnsetOutcomes :
          LET out == analyze_stream_chunk(chunk_len, call.sample_rate, stream,
                                          p, onset_val)
          IN  /\ stream' = out.state
              /\ call' = [ n |-> call.n + 1, sample_rate |-> call.sample_rate,
                           chunk_len |-> chunk_len, pitch |-> p,
                           onset |-> onset_val, returned |-> out.result ]
    /\ UNCHANGED <<grow_vars, name_vars, mock_vars, export_vars, analysis_vars>>

NextStream == AnalyzeChunk

SpecStream == InitStream /\ [][NextStream]_vars

\* ------------------------------------------------------ export_for_gpt
\* The chunking loop of export_for_gpt (processor.rs, lines 93-126) over the
\* onsets of one recording.  An event of a chunk is the index of its onset.
chunk_size == Ms(10000)

ExportOnsetValues == {0, Ms(5000), Ms(10000), Ms(12000), Ms(20000), Ms(25000)}

ExportOnsets == 4

ExportRecordings ==
    { [pitch_hz |-> <<>>, onsets |-> o] :
        o \in {s \in SeqsUpTo(ExportOnsetValues, ExportOnsets) : Ascending(s)} }

\* Lines 100-106: the indices of the onsets t with t >= from and t < to.
Indices(onsets, from, to) ==
    SelectSeq([j \in 1..Len(onsets) |-> j],
              LAMBDA j : onsets[j] >= from /\ onsets[j] < to)

InitExport ==
    /\ reference \in ExportRecordings
    /\ player = NoRecording
    /\ pc = "export"
    /\ Untouched
    /\ seg = SegInit /\ seg_i = 1
    /\ Idle

\* Line 96: no onsets, no chunks.
ExportNoOnsets ==
    /\ pc = "export"
    /\ reference.onsets = <<>>
    /\ pc' = "exported"
    /\ UNCHANGED <<export_vars, grow_vars, name_vars, mock_vars, stream_vars,
                   reference, seg_vars, compare_vars>>

\* Lines 98-125: one iteration of the loop.
ExportChunk ==
    /\ pc = "export"
    /\ reference.onsets # <<>>
    /\ LET last_time == reference.onsets[Len(reference.onsets)]
           end       == Min(start + chunk_size, last_time)
       IN  /\ start < last_time
           /\ chunks' = Append(chunks,
                               [ start  |-> start,
                                 end    |-> end,
                                 events |-> Indices(reference.onsets, start, end) ])
           /\ start' = start + chunk_size
    /\ UNCHANGED <<grow_vars, name_vars, mock_vars, stream_vars,
                   reference, pc, seg_vars, compare_vars>>

\* Line 98: the loop ends.
ExportDone ==
    /\ pc = "export"
    /\ reference.onsets # <<>>
    /\ start >= reference.onsets[Len(reference.onsets)]
    /\ pc' = "exported"
    /\ UNCHANGED <<export_vars, grow_vars, name_vars, mock_vars, stream_vars,
                   reference, seg_vars, compare_vars>>

NextExport ==
    \/ ExportNoOnsets
    \/ ExportChunk
    \/ ExportDone

SpecExport == InitExport /\ [][NextExport]_vars

\* ================================================================== claims
\* Shared vocabulary of the claims below.

AfterNotes == pc \in {"timing", "finish", "done"}

AfterTiming == pc \in {"finish", "done"}

BothNonEmpty == ref_notes # <<>> /\ player_notes # <<>>

\* A loop of compare_note_sequences or compare_timing has just handled
\* reference note i - 1.
Handled == pc \in {"notes", "timing"} /\ BothNonEmpty /\ i > 1

\* A loop is about to handle reference note i.
LoopStep ==
    /\ pc \in {"notes", "timing"} /\ BothNonEmpty
    /\ i <= Len(ref_notes) /\ i' = i + 1

Gaps(ref_note) ==
    {Abs(player_notes[k].start_time - ref_note.start_time) :
        k \in 1..Len(player_notes)}

SmallestGap(ref_note) == CHOOSE g \in Gaps(ref_note) : \A h \in Gaps(ref_note) : g <= h

\* The played note nearest in time to the reference note, the first of
\* several equally near ones.
NearestFirst(ref_note) ==
    CHOOSE j \in 1..Len(player_notes) :
        /\ Abs(player_notes[j].start_time - ref_note.start_time)
               = SmallestGap(ref_note)
        /\ \A k \in 1..(j - 1) :
               Abs(player_notes[k].start_time - ref_note.start_time)
                   # SmallestGap(ref_note)

\* The increasing enumeration of a finite set of numbers.
RECURSIVE InOrder(_)
InOrder(S) ==
    IF S = {} THEN <<>>
    ELSE LET least == CHOOSE x \in S : \A y \in S : x <= y
         IN  <<least>> \o InOrder(S \ {least})

\* The match the program takes for reference note k: the candidate of the
\* nearest-match step, kept when it starts within 500 ms; 0 when there is none.
MatchFor(k) ==
    LET c == MinByKey(player_notes, ref_notes[k])
    IN  IF c # 0 /\ Abs(player_notes[c].start_time - ref_notes[k].start_time)
                       <= Ms(500)
        THEN c ELSE 0

CentsOff(k) ==
    player_notes[MatchFor(k)].avg_pitch_hz - ref_notes[k].avg_pitch_hz

GapOf(k) == Abs(player_notes[MatchFor(k)].start_time - ref_notes[k].start_time)

Matched == {k \in 1..Len(ref_notes) : player_notes # <<>> /\ MatchFor(k) # 0}

\* C1: in both loops the candidate of every reference note is the played note
\* with the smallest absolute start-time difference, the first one in the
\* played sequence among several at exactly that difference.
C1_CandidateIsNearest ==
    Handled => closest_player = NearestFirst(ref_notes[i - 1])

\* C2: a match is taken only within 500 ms; a reference note whose nearest
\* played note is farther than 500 ms changes neither the correct count, nor
\* the pitch errors, nor the timing errors, nor the accumulated timing error.
C2_OnlyWithinWindow ==
    [][ LoopStep =>
          LET acc == <<correct_count, pitch_errors, total_timing_error,
                       timing_errors>>
          IN  /\ SmallestGap(ref_notes[i]) > Ms(500) => acc' = acc
              /\ acc' # acc =>
                    /\ closest_player' # 0
                    /\ Abs(player_notes[closest_player'].start_time
                             - ref_notes[i].start_time) <= Ms(500) ]_vars

\* C2 witness: the timing loop has handled two reference notes, the first one
\* matched and counted, the second one with no played note within 500 ms.
C2_Witness ==
    /\ pc = "timing" /\ BothNonEmpty /\ i = 3
    /\ SmallestGap(ref_notes[2]) > Ms(500)
    /\ total_timing_error > 0
    /\ correct_count + Len(pitch_errors) = 1

\* C3: for non-empty sequences every reference note with a match is either
\* counted correct (at most 50 cents off) or gives exactly one PitchError with
\* the reference start time, both note names and the signed difference, and
\* note_accuracy is the correct count over the number of reference notes; with
\* an empty sequence note_accuracy is 0.0 and there are no pitch errors.
C3_NoteAccuracy ==
    AfterNotes =>
        IF BothNonEmpty
        THEN LET correct == {k \in Matched : Abs(CentsOff(k)) <= 50}
                 wrong == InOrder(Matched \ correct)
             IN  /\ correct_count = Cardinality(correct)
                 /\ note_accuracy =
                        (ScoreScale * Cardinality(correct)) \div Len(ref_notes)
                 /\ pitch_errors =
                        [n \in 1..Len(wrong) |->
                            [ time            |-> ref_notes[wrong[n]].start_time,
                              expected_note   |-> ref_notes[wrong[n]].note_name,
                              played_note     |->
                                  player_notes[MatchFor(wrong[n])].note_name,
                              cent_difference |-> CentsOff(wrong[n]) ]]
        ELSE note_accuracy = 0 /\ pitch_errors = <<>>

\* C3 witness: of two reference notes one was counted correct at exactly 50
\* cents off and the other gave a pitch error.
C3_Witness ==
    /\ pc = "done" /\ Len(ref_notes) = 2 /\ player_notes # <<>>
    /\ correct_count = 1 /\ Len(pitch_errors) = 1
    /\ \E k \in Matched : Abs(CentsOff(k)) = 50

\* C4: pitch_accuracy comes from the pitch errors of the note comparison: 1.0
\* when there are none, else max(0, 1 - mean(|cent_difference|) / 100), which
\* is 0.0 once the mean is 100 cents or more.
C4_PitchAccuracy ==
    pc = "done" =>
        LET total == SumSeq([n \in 1..Len(pitch_errors) |->
                                Abs(pitch_errors[n].cent_difference)])
            count == Len(pitch_errors)
        IN  /\ count = 0 => pitch_accuracy = ScoreScale
            /\ count > 0 /\ total >= 100 * count => pitch_accuracy = 0
            /\ count > 0 /\ total < 100 * count =>
                   pitch_accuracy =
                       ScoreScale - (ScoreScale * total) \div (100 * count)

\* C4 witness: two pitch errors with a mean below 100 cents, so that the
\* score lies strictly between 0.0 and 1.0.
C4_Witness ==
    /\ pc = "done" /\ Len(pitch_errors) = 2
    /\ 0 < pitch_accuracy /\ pitch_accuracy < ScoreScale

C6_TimingErrors ==
    AfterTiming =>
        LET late == InOrder({k \in Matched : GapOf(k) > Ms(50)})
        IN  timing_errors =
                [n \in 1..Len(late) |->
                    [ note          |-> ref_notes[late[n]].note_name,
                      expected_time |-> ref_notes[late[n]].start_time,
                      played_time   |->
                          player_notes[MatchFor(late[n])].start_time,
                      ms_difference |-> GapOf(late[n]) ]]

\* C6 witness: of two matched reference notes one lies exactly 50 ms from its
\* match and is not reported, the other lies farther and is.
C6_Witness ==
    /\ pc = "done" /\ Cardinality(Matched) = 2
    /\ \E k \in Matched : GapOf(k) = Ms(50)
    /\ Len(timing_errors) = 1

SameNameNearby(note, others) ==
    \E k \in 1..Len(others) :
        /\ others[k].note_name = note.note_name
        /\ Abs(others[k].start_time - note.start_time) <= Ms(500)

\* C7: missed_notes lists exactly the reference notes for which no played note
\* of the same name starts within 500 ms, extra_notes exactly the played notes
\* for which no reference note of the same name does; one entry per note, in
\* sequence order, whatever the nearest-match step chose.
C7_MissedAndExtra ==
    pc = "done" =>
        LET missed == InOrder({k \in 1..Len(ref_notes) :
                                  ~SameNameNearby(ref_notes[k], player_notes)})
            extra == InOrder({k \in 1..Len(player_notes) :
                                 ~SameNameNearby(player_notes[k], ref_notes)})
        IN  /\ missed_notes =
                   [n \in 1..Len(missed) |-> NoteLabel(ref_notes[missed[n]])]
            /\ extra_notes =
                   [n \in 1..Len(extra) |-> NoteLabel(player_notes[extra[n]])]

\* C7 witness: a reference note that has a match in the nearest-match step is
\* listed as missed all the same, another reference note is not listed, and a
\* played note is listed as extra.
C7_Witness ==
    /\ pc = "done" /\ Len(ref_notes) = 2
    /\ Len(missed_notes) = 1 /\ Len(extra_notes) = 1
    /\ \E k \in Matched : ~SameNameNearby(ref_notes[k], player_notes)

\* C8: rhythm_accuracy is 0.0 when either pattern has no interval, else
\* 0.6 * tempo_similarity + 0.4 * stability_similarity with tempo_similarity =
\* max(0, 1 - |avg_ref - avg_played| / max(avg_ref, 0.1 s)) and
\* stability_similarity = 1 - |stability_ref - stability_played|.
C8_RhythmAccuracy ==
    pc = "done" =>
        IF ref_rhythm.inter_onset_intervals = <<>>
              \/ player_rhythm.inter_onset_intervals = <<>>
        THEN rhythm_accuracy = 0
        ELSE LET avg_ref == ref_rhythm.avg_interval
                 avg_played == player_rhythm.avg_interval
                 divisor == IF avg_ref >= Ms(100) THEN avg_ref ELSE Ms(100)
                 raw == ScoreScale
                            - (ScoreScale * Abs(avg_ref - avg_played)) \div divisor
                 tempo == IF raw < 0 THEN 0 ELSE raw
                 stability ==
                     ScoreScale - Abs(ref_rhythm.tempo_stability
                                        - player_rhythm.tempo_stability)
             IN  rhythm_accuracy = (6 * tempo + 4 * stability) \div 10

\* C8 witness: both patterns have intervals, the averages differ, both
\* stabilities are defined and differ, and the score is neither 0.0 nor 1.0.
C8_Witness ==
    /\ pc = "done"
    /\ Len(ref_rhythm.inter_onset_intervals) = 2
    /\ Len(player_rhythm.inter_onset_intervals) = 2
    /\ ref_rhythm.avg_interval # player_rhythm.avg_interval
    /\ ref_rhythm.tempo_stability # player_rhythm.tempo_stability
    /\ 0 < rhythm_accuracy /\ rhythm_accuracy < ScoreScale

\* C9: with ascending onsets, compare_recordings returns the four accuracies
\* within [0.0, 1.0] and overall_similarity = 0.30 note + 0.25 pitch
\* + 0.25 timing + 0.20 rhythm, itself within [0.0, 1.0].
C9_ScoresInRange ==
    pc = "done" =>
        /\ note_accuracy \in 0..ScoreScale
        /\ pitch_accuracy \in 0..ScoreScale
        /\ timing_accuracy \in 0..ScoreScale
        /\ rhythm_accuracy \in 0..ScoreScale
        /\ overall_similarity =
               (30 * note_accuracy + 25 * pitch_accuracy + 25 * timing_accuracy
                    + 20 * rhythm_accuracy) \div 100
        /\ overall_similarity \in 0..ScoreScale

\* C9 witness: a comparison in which all four accuracies lie strictly between
\* 0.0 and 1.0.
C9_Witness ==
    /\ pc = "done"
    /\ 0 < note_accuracy /\ note_accuracy < ScoreScale
    /\ 0 < pitch_accuracy /\ pitch_accuracy < ScoreScale
    /\ 0 < timing_accuracy /\ timing_accuracy < ScoreScale
    /\ 0 < rhythm_accuracy /\ rhythm_accuracy < ScoreScale

\* C10: when the reference or the played note sequence is empty,
\* note_accuracy, pitch_accuracy and timing_accuracy are all 0.0 and there are
\* neither pitch errors nor timing errors.
C10_EmptyGivesZero ==
    pc = "done" /\ ~BothNonEmpty =>
        /\ note_accuracy = 0
        /\ pitch_accuracy = 0
        /\ timing_accuracy = 0
        /\ pitch_errors = <<>>
        /\ timing_errors = <<>>

\* ------------------------------------------------------------------- C11
\* Vocabulary of the claims about a second take.
SameTake == pc = "done" /\ player = reference

Above95(score) == 100 * score > 95 * ScoreScale

\* Every sample has an onset of its own, so no sample time is a fallback.
OnsetPerSample(analysis) == Len(analysis.onsets) >= Len(analysis.pitch_hz)

\* C11 as stated: a recording compared with an identical copy of itself has
\* an overall similarity above 0.95, whatever the recording.
C11_AnyRecordingAbove95 ==
    SameTake => Above95(overall_similarity)

\* C11, amended: a recording with an onset for each of its samples, from
\* which at least one note is extracted, compared with an identical copy of
\* itself has an overall similarity above 0.95.
C11_IdenticalAbove95 ==
    (SameTake /\ ref_notes # <<>> /\ OnsetPerSample(reference))
        => Above95(overall_similarity)

C11_Witness ==
    /\ SameTake
    /\ Len(ref_notes) = 2
    /\ OnsetPerSample(reference)
    /\ overall_similarity = ScoreScale

\* ------------------------------------------------------------------- C12
\* C12: a recording compared with an identical copy of itself has no missed
\* and no extra notes.
C12_IdenticalNoDifferences ==
    SameTake => (missed_notes = <<>> /\ extra_notes = <<>>)

C12_Witness ==
    /\ SameTake
    /\ Len(ref_notes) = 2
    /\ ref_notes[1].note_name # ref_notes[2].note_name
    /\ missed_notes = <<>> /\ extra_notes = <<>>

\* ------------------------------------------------------------------- C13
RemoveAt(s, k) == SubSeq(s, 1, k - 1) \o SubSeq(s, k + 1, Len(s))

\* The played sequence is the reference without its k-th note.
PlayedWithout(k) ==
    /\ pc = "done"
    /\ k \in 1..Len(ref_notes)
    /\ player_notes = RemoveAt(ref_notes, k)

\* C13 as stated: when the played sequence is the reference with one note
\* removed, missed_notes has exactly one entry, the removed note.
C13_RemovedNoteMissed ==
    \A k \in 1..Len(ref_notes) :
        PlayedWithout(k) => missed_notes = <<NoteLabel(ref_notes[k])>>

\* C13, amended: when the played sequence is the reference with one note
\* removed, missed_notes holds the removed note and nothing else, unless a
\* remaining note has its name and starts within 500 ms of it: then
\* missed_notes is empty.
C13_RemovedNoteMissedUnlessNamesake ==
    \A k \in 1..Len(ref_notes) :
        PlayedWithout(k) =>
            missed_notes =
                IF SameNameNearby(ref_notes[k], RemoveAt(ref_notes, k))
                THEN <<>>
                ELSE <<NoteLabel(ref_notes[k])>>

C13_Witness ==
    \E k \in 1..Len(ref_notes) :
        /\ PlayedWithout(k)
        /\ Len(ref_notes) = 3
        /\ ~SameNameNearby(ref_notes[k], RemoveAt(ref_notes, k))
        /\ missed_notes = <<NoteLabel(ref_notes[k])>>

\* ------------------------------------------------------------------- C14
\* The overall similarity of the reference compared with itself.
IdenticalOverall ==
    Metrics(ref_notes, ref_notes, ref_rhythm, ref_rhythm).overall_similarity

\* No two notes start within a millisecond of each other.
StartsApart(notes) ==
    \A a \in 1..Len(notes), b \in 1..Len(notes) :
        a # b => Abs(notes[a].start_time - notes[b].start_time) >= Ms(1)

SampleStep == pc = "segment" /\ seg_i' = seg_i + 1

NoteOpen == seg.current_midi # None

SampleHz == reference.pitch_hz[seg_i]

SampleMidi == hz_to_midi(SampleHz)

\* C15: while a note is open with MIDI value m, a sample whose MIDI value is
\* within one semitone of m is appended to the note and leaves m and the
\* start time as they are; a sample further away opens a new note with the
\* sample's MIDI value, the sample's time as start time and the sample alone
\* in the buffer.
C15_ContinueOrClose ==
    [][ (SampleStep /\ NoteOpen /\ SampleMidi # None) =>
            IF Abs(SampleMidi - seg.current_midi) <= 1
            THEN /\ seg'.current_midi = seg.current_midi
                 /\ seg'.current_start = seg.current_start
                 /\ seg'.current_pitches = Append(seg.current_pitches, SampleHz)
                 /\ seg'.sequences = seg.sequences
            ELSE /\ seg'.current_midi = SampleMidi
                 /\ seg'.current_start = SampleTime(reference, seg_i)
                 /\ seg'.current_pitches = <<SampleHz>> ]_vars

\* A note opened at 69 has taken a sample at 70 and was closed by one at 71.
C15_Witness ==
    /\ pc = "segment"
    /\ seg_i = 4
    /\ hz_to_midi(reference.pitch_hz[1]) = 69
    /\ hz_to_midi(reference.pitch_hz[2]) = 70
    /\ hz_to_midi(reference.pitch_hz[3]) = 71
    /\ seg.current_midi = 71
    /\ Len(seg.current_pitches) = 1

\* ------------------------------------------------------------------- C16
\* C16: a sample for which hz_to_midi returns None leaves the open note, its
\* start time, its buffer and the emitted notes as they are.
C16_NoMidiNoEffect ==
    [][ (SampleStep /\ SampleMidi = None) => seg' = seg ]_vars

\* A note is open and has just passed over a sample without a MIDI value.
C16_Witness ==
    /\ pc = "segment"
    /\ seg_i = 3
    /\ hz_to_midi(reference.pitch_hz[2]) = None
    /\ NoteOpen
    /\ Len(seg.current_pitches) = 1

\* ------------------------------------------------------------------- C17
\* The step about to be taken closes the open note.
ClosingStep ==
    /\ SampleStep
    /\ NoteOpen
    /\ SampleMidi # None
    /\ Abs(SampleMidi - seg.current_midi) > 1

\* C17: a note closed at sample i is emitted exactly when the time of the
\* sample is at least 100 ms after the start of the note; the emitted note
\* has that difference as duration, the start time and the MIDI value (and
\* its name) of the closed note, and the mean of the buffered samples as
\* average pitch.  A shorter note is discarded.
C17_CloseEmitsLongNotes ==
    [][ ClosingStep =>
            LET time_i == SampleTime(reference, seg_i)
            IN  IF time_i - seg.current_start >= Ms(100)
                THEN seg'.sequences =
                         Append(seg.sequences,
                                [ note_name    |-> midi_to_note_name(seg.current_midi),
                                  midi_note    |-> seg.current_midi,
                                  start_time   |-> seg.current_start,
                                  duration     |-> time_i - seg.current_start,
                                  avg_pitch_hz |->
                                      SumSeq(seg.current_pitches)
                                          \div Len(seg.current_pitches) ])
                ELSE seg'.sequences = seg.sequences ]_vars

\* A note of two samples, closed after exactly 100 ms, has been emitted.
C17_Witness ==
    /\ pc = "segment"
    /\ seg_i = 4
    /\ Len(seg.sequences) = 1
    /\ seg.sequences[1].duration = Ms(100)
    /\ seg.sequences[1].avg_pitch_hz = 6970
    /\ seg.sequences[1].note_name = "A4"

\* ------------------------------------------------------------------- C18
\* The step about to be taken is the one after the last sample.
FinalStep ==
    /\ pc = "segment" /\ pc' = "segmented"
    /\ reference.pitch_hz # <<>> /\ reference.onsets # <<>>

LastOnset == reference.onsets[Len(reference.onsets)]

\* C18: at the end of the stream a note still open is emitted, once, exactly
\* when the last onset is at least 100 ms after its start, with that
\* difference as duration; otherwise it is dropped, and nothing is emitted
\* where no note is open.  After this step no note is emitted any more.
C18_FinalFlush ==
    [][ /\ FinalStep =>
            IF NoteOpen /\ LastOnset - seg.current_start >= Ms(100)
            THEN seg'.sequences =
                     Append(seg.sequences,
                            [ note_name    |-> midi_to_note_name(seg.current_midi),
                              midi_note    |-> seg.current_midi,
                              start_time   |-> seg.current_start,
                              duration     |-> LastOnset - seg.current_start,
                              avg_pitch_hz |->
                                  SumSeq(seg.current_pitches)
                                      \div Len(seg.current_pitches) ])
            ELSE seg'.sequences = seg.sequences
        /\ pc = "segmented" => seg'.sequences = seg.sequences ]_vars

\* The second note of a recording was flushed at the end, exactly 100 ms long,
\* the first one having been emitted when it was closed.
C18_Witness ==
    /\ pc = "segmented"
    /\ Len(reference.pitch_hz) = 2
    /\ Len(seg.sequences) = 2
    /\ seg.sequences[2].start_time = Ms(100)
    /\ seg.sequences[2].duration = Ms(100)

\* ------------------------------------------------------------------- C19
\* C19: extract_note_sequence returns the empty list whenever the pitch list
\* or the onset list is empty.
C19_NothingFromNothing ==
    (/\ pc = "segmented"
     /\ reference.pitch_hz = <<>> \/ reference.onsets = <<>>)
        => seg.sequences = <<>>

\* Returned with nothing from a held note of 100 ms and no onsets, which the
\* scan would have emitted when the note after it closed it.
C19_Witness ==
    /\ pc = "segmented"
    /\ Len(reference.pitch_hz) > 10
    /\ reference.onsets = <<>>
    /\ seg.sequences = <<>>
    /\ SegScan(reference, 1, SegInit).sequences # <<>>

\* ------------------------------------------------------------------- C20
\* C20 as stated: the MIDI value of every emitted note is the one hz_to_midi
\* gives for the average pitch of the note.
C20_MidiOfAverage ==
    \A n \in 1..Len(seg.sequences) :
        seg.sequences[n].midi_note = hz_to_midi(seg.sequences[n].avg_pitch_hz)

\* C20, amended: the MIDI value of a note is the one hz_to_midi gives for
\* the first sample of the note, and the one it gives for the average pitch
\* of an emitted note is at most one semitone away from it.
C20_MidiNearAverage ==
    /\ NoteOpen => seg.current_midi = hz_to_midi(seg.current_pitches[1])
    /\ \A n \in 1..Len(seg.sequences) :
          /\ hz_to_midi(seg.sequences[n].avg_pitch_hz) # None
          /\ Abs(seg.sequences[n].midi_note
                     - hz_to_midi(seg.sequences[n].avg_pitch_hz)) <= 1

\* An emitted A4 whose average pitch is an A#4.
C20_Witness ==
    /\ pc = "segmented"
    /\ Len(seg.sequences) = 1
    /\ seg.sequences[1].midi_note = 69
    /\ hz_to_midi(seg.sequences[1].avg_pitch_hz) = 70

\* ------------------------------------------------------------------- C21
IsPrefix(s, t) == Len(s) <= Len(t) /\ SubSeq(t, 1, Len(s)) = s

\* C21: the notes an invocation on a buffer emitted by closing are, unchanged
\* and in the same order, the first notes an invocation on the extended
\* buffer returns.
C21_PrefixConsistent ==
    (pc = "segmented" /\ grown > 0) => IsPrefix(prev_closed, seg.sequences)

\* ------------------------------------------------------------------- C22
\* The standard deviation of the intervals of a rhythm pattern.
StdDev(r) ==
    Sqrt(SumSeq([n \in 1..Len(r.inter_onset_intervals) |->
                    (r.inter_onset_intervals[n] - r.avg_interval)
                        * (r.inter_onset_intervals[n] - r.avg_interval)])
             \div Len(r.inter_onset_intervals))

EvenlySpaced(onset_times) ==
    /\ Len(onset_times) >= 3
    /\ onset_times[2] > onset_times[1]
    /\ \A n \in 2..(Len(onset_times) - 1) :
          onset_times[n + 1] - onset_times[n] = onset_times[2] - onset_times[1]

\* C22: tempo_stability lies in [0, 1]; it is min(1, 1 / (1 + cv)), cv the
\* standard deviation of the intervals over their mean, when there are at
\* least two intervals and the mean is positive, and 0 otherwise; evenly
\* spaced onsets, three or more, give 1.
C22_TempoStability ==
    pc = "rhythm_done" =>
        /\ ref_rhythm.tempo_stability \in 0..ScoreScale
        /\ IF Len(reference.onsets) >= 3 /\ ref_rhythm.avg_interval > 0
           THEN ref_rhythm.tempo_stability =
                    Min(ScoreScale,
                        (ScoreScale * ref_rhythm.avg_interval)
                            \div (ref_rhythm.avg_interval + StdDev(ref_rhythm)))
           ELSE ref_rhythm.tempo_stability = 0
        /\ EvenlySpaced(reference.onsets)
               => ref_rhythm.tempo_stability = ScoreScale

\* Four onsets unevenly spaced: a stability strictly between 0 and 1.
C22_Witness ==
    /\ pc = "rhythm_done"
    /\ Len(reference.onsets) = 4
    /\ ~EvenlySpaced(reference.onsets)
    /\ ref_rhythm.tempo_stability > 0
    /\ ref_rhythm.tempo_stability < ScoreScale

\* ------------------------------------------------------------------- C23
\* The twelve names, as the claim lists them.
PitchClass ==
    [n \in 0..11 |->
        CASE n = 0 -> "C"   [] n = 1 -> "C#"  [] n = 2 -> "D"
          [] n = 3 -> "D#"  [] n = 4 -> "E"   [] n = 5 -> "F"
          [] n = 6 -> "F#"  [] n = 7 -> "G"   [] n = 8 -> "G#"
          [] n = 9 -> "A"   [] n = 10 -> "A#" [] n = 11 -> "B"]

\* C23: for every MIDI number m of 0..=127 the name is entry m mod 12 of the
\* table followed by the octave m div 12 - 1; 69 is "A4", 60 "C4", 72 "C5",
\* 48 "C3"; no two numbers have the same name.
C23_NoteNames ==
    (shared_note # "" /\ hz_to_midi(hz) # None) =>
        LET m == hz_to_midi(hz)
        IN  /\ shared_note = PitchClass[m % 12] \o ToString((m \div 12) - 1)
            /\ m = 69 => shared_note = "A4"
            /\ m = 60 => shared_note = "C4"
            /\ m = 72 => shared_note = "C5"
            /\ m = 48 => shared_note = "C3"
            /\ \A other \in 0..127 :
                  other # m => midi_to_note_name(other) # shared_note

\* The lowest number has been named: octave -1.
C23_Witness ==
    /\ hz_to_midi(hz) = 0
    /\ shared_note = "C-1"

\* ------------------------------------------------------------------- C26
\* C26: for every frequency with a MIDI number in 0..=127, hz_to_note of
\* export_for_gpt gives the name that hz_to_note_name gives, below C4 too.
C26_LegacyNameAgrees ==
    (shared_note # "" /\ legacy_note # "" /\ hz_to_midi(hz) # None)
        => legacy_note = shared_note

\* ------------------------------------------------------------------- C24
RECURSIVE CallsReturned(_)
CallsReturned(t) ==
    IF t = 0 THEN 0 ELSE Len(tasks[t].feedback) + CallsReturned(t - 1)

CallsCounted == Cardinality({t \in TaskIds : tasks[t].pc = "stored"})

\* C24: with one comparison response configured, every send_comparison call
\* returns that response, comparison_call_count is the number of calls made
\* (those returned and those that have counted themselves and are about to
\* return), and the count changes only in a send_comparison call, by one.
C24_CountsEveryCall ==
    /\ [](\A t \in TaskIds : \A n \in 1..Len(tasks[t].feedback) :
              tasks[t].feedback[n] = mock.comparison_responses[1])
    /\ [](mock.comparison_call_count = CallsReturned(MockTasks) + CallsCounted)
    /\ [][ mock'.comparison_call_count # mock.comparison_call_count =>
               /\ mock'.comparison_call_count = mock.comparison_call_count + 1
               /\ \E t \in TaskIds :
                      tasks[t].pc = "loaded" /\ tasks'[t].pc = "stored" ]_vars

\* Both tasks have made all their calls, and send_single_analysis was used.
C24_Witness ==
    /\ \A t \in TaskIds : tasks[t].pc = "idle" /\ Len(tasks[t].feedback) = MockCalls
    /\ mock.comparison_call_count = MockTasks * MockCalls
    /\ mock.single_call_count > 0

\* ------------------------------------------------------------------- C25
\* The step is a call of analyze_stream_chunk.
ChunkCall == call'.n = call.n + 1

DetectorsSucceed == call'.pitch # DetectorError /\ call'.onset # DetectorError

\* C25: a call in which both detectors succeed on a non-empty chunk raises
\* current_time by the length of the chunk over the sample rate, so to a
\* greater value, and current_time never falls; a note that a call returns
\* has a pitch above 0, the raised current_time as its time, and has been
\* appended to detected_notes.
C25_TimeAdvances ==
    [][ /\ (ChunkCall /\ DetectorsSucceed /\ call'.chunk_len > 0) =>
              /\ stream'.current_time =
                     stream.current_time
                         + (call'.chunk_len * 1000 * TicksPerMs)
                               \div call'.sample_rate
              /\ stream'.current_time > stream.current_time
        /\ stream'.current_time >= stream.current_time
        /\ (ChunkCall /\ call'.returned # NoNote) =>
              /\ call'.returned.pitch_hz # Silence
              /\ call'.returned.pitch_hz > 0
              /\ call'.returned.time = stream'.current_time
              /\ stream'.detected_notes =
                     Append(stream.detected_notes, call'.returned) ]_vars

\* The third call has returned a note, after a call that returned none.
C25_Witness ==
    /\ call.n = 3
    /\ call.returned # NoNote
    /\ call.chunk_len > 0
    /\ Len(stream.detected_notes) = 2
    /\ call.returned.time = stream.current_time

\* ------------------------------------------------------------------- C30
\* C30: a call in which the pitch detector or the onset detector fails
\* returns None and leaves current_time and detected_notes as they were;
\* detected_notes is only ever appended to, and the times of its notes never
\* fall from one note to the next.
C30_FailureLeavesState ==
    /\ [][ /\ (ChunkCall /\ ~DetectorsSucceed) =>
                 (call'.returned = NoNote /\ stream' = stream)
           /\ IsPrefix(stream.detected_notes, stream'.detected_notes) ]_vars
    /\ [](\A a \in 1..Len(stream.detected_notes) :
             \A b \in 1..Len(stream.detected_notes) :
                 a < b => stream.detected_notes[a].time
                              <= stream.detected_notes[b].time)

\* A call has failed in the onset detector after a note had been detected.
C30_Witness ==
    /\ call.n = 2
    /\ call.pitch = 6900
    /\ call.onset = DetectorError
    /\ call.chunk_len > 0
    /\ call.returned = NoNote
    /\ Len(stream.detected_notes) = 1
    /\ stream.current_time = stream.detected_notes[1].time

\* ------------------------------------------------------------------- C27
\* The notes of a list follow one another: each is at least 100 ms long,
\* starts no earlier than the one before it, and ends no later than the next
\* one starts.
FollowOn(sequences) ==
    /\ \A a \in 1..Len(sequences) : sequences[a].duration >= Ms(100)
    /\ \A a \in 1..(Len(sequences) - 1) :
          /\ sequences[a].start_time <= sequences[a + 1].start_time
          /\ sequences[a].start_time + sequences[a].duration
                 <= sequences[a + 1].start_time

\* C27: the notes that extract_note_sequence returns for ascending onsets are
\* each at least 100 ms long, start in non-decreasing order and do not
\* overlap, whether the onset list is at least as long as the pitch list or
\* shorter, where the samples past its end are timed at i * 0.01.
C27_NotesFollowOn ==
    pc = "segmented" => FollowOn(seg.sequences)

\* ------------------------------------------------------------------- C28
\* No reference note has a played note within 500 ms of its start.
NothingInReach ==
    \A a \in 1..Len(ref_notes) : \A b \in 1..Len(player_notes) :
        Abs(player_notes[b].start_time - ref_notes[a].start_time) > Ms(500)

\* C28: where both sequences have notes and no reference note has a played
\* note within 500 ms, compare_recordings reports a timing accuracy of 0, as
\* it reports a note accuracy of 0.
C28_UnmatchedScoresNothing ==
    (/\ pc = "done"
     /\ ref_notes # <<>>
     /\ player_notes # <<>>
     /\ NothingInReach)
        => (timing_accuracy = 0 /\ note_accuracy = 0)

\* ------------------------------------------------------------------- C29
\* The chunks that list the onset of index j among their events.
ChunksListing(j) ==
    {c \in 1..Len(chunks) : \E e \in 1..Len(chunks[c].events) :
                                chunks[c].events[e] = j}

\* C29: when export_for_gpt has left its chunking loop, the chunks are the
\* consecutive windows from 10k seconds to the smaller of 10k + 10 seconds
\* and the last onset, and every onset of the recording, the last one
\* included, is listed in the events of exactly one chunk.
C29_EveryOnsetInOneChunk ==
    pc = "exported" =>
        /\ \A c \in 1..Len(chunks) :
              /\ chunks[c].start = (c - 1) * chunk_size
              /\ chunks[c].end =
                     Min(c * chunk_size, reference.onsets[Len(reference.onsets)])
        /\ \A j \in 1..Len(reference.onsets) :
              Cardinality(ChunksListing(j)) = 1

====
